---------------------------- MODULE Spec2Model ----------------------------
(* A model of create_project.py: the linear provisioning script that      *)
(* creates a Laravel project and rewrites a handful of its files.          *)
(*                                                                         *)
(* Text is modelled as a sequence of tokens.  Every token is a literal     *)
(* piece of the text (a key name, "=", "#", a newline, ...); joining the   *)
(* tokens of a sequence gives the text the script reads or writes.  The    *)
(* tokens are chosen so that every string the script searches for is a     *)
(* sequence of whole tokens and cannot straddle a token boundary; "x" is   *)
(* any other text.                                                         *)
EXTENDS Naturals, Sequences, FiniteSets, TLC

VARIABLES
    pc,            \* position in StepSeq of the step about to run
    status,        \* "running" | "aborted" | "done" ("harness" in SpecEdit)
    cwd,           \* the process working directory
    launch,        \* the directory the process was started from
    links,         \* the symbolic links among the directories
    project_name,  \* the answer to input("Project name: ")
    notices,       \* what the script printed, in order
    outcomes,      \* per executed step: how its operation ended and in which cwd
    fs,            \* the project tree, NoProject before `laravel new`
    orig,          \* the project tree as `laravel new` generated it
    target,        \* SpecEdit: which edit is applied
    hist           \* SpecEdit: the content before and after each application

vars == <<pc, status, cwd, launch, links, project_name, notices, outcomes, fs, orig,
          target, hist>>

---------------------------------------------------------------------------
(* Bounds of the model.                                                    *)
MaxEnvLines == 2
MaxViteLines == 3
MaxComposerLen == 4
MaxApply == 2

---------------------------------------------------------------------------
(* str methods on token sequences.                                         *)

NL == "\n"
CR == "\r"
FF == "\f"
S4 == "    "

(* The characters str.strip() removes (those str.isspace() holds of), as   *)
(* tokens: the ASCII white space (space, tab, newline, carriage return,    *)
(* vertical tab, form feed, the separators 1C to 1F) and the Unicode       *)
(* spaces.  A character outside ASCII is written as the token "U+" and its *)
(* code point, so "U+3000" is the ideographic space and "U+00E9" a letter. *)
Whitespace ==
    {" ", S4, "\t", NL, CR, FF, "", "", "", "", "",
     "U+0085", "U+00A0", "U+1680", "U+2000", "U+2001", "U+2002", "U+2003",
     "U+2004", "U+2005", "U+2006", "U+2007", "U+2008", "U+2009", "U+200A",
     "U+2028", "U+2029", "U+202F", "U+205F", "U+3000"}

IsSpace(t) == t \in Whitespace

StartsWith(s, p) == Len(s) >= Len(p) /\ SubSeq(s, 1, Len(p)) = p

Contains(s, p) ==
    \E i \in 1..(Len(s) + 1) :
        i + Len(p) - 1 <= Len(s) /\ SubSeq(s, i, i + Len(p) - 1) = p

(* str.strip(): the text between its first and its last non-space token.   *)
Strip(s) ==
    LET keep == {i \in 1..Len(s) : ~IsSpace(s[i])} IN
    IF keep = {} THEN <<>>
    ELSE SubSeq(s, CHOOSE i \in keep : \A j \in keep : i <= j,
                   CHOOSE i \in keep : \A j \in keep : i >= j)

(* str.find(p): the first place p occurs in s, 0 when it does not.        *)
Find(s, p) ==
    LET at == {i \in 1..Len(s) :
                   i + Len(p) - 1 <= Len(s) /\ SubSeq(s, i, i + Len(p) - 1) = p}
    IN  IF at = {} THEN 0 ELSE CHOOSE i \in at : \A j \in at : i <= j

(* str.replace: left to right, non-overlapping, every occurrence.          *)
RECURSIVE Replace(_, _, _)
Replace(s, old, new) ==
    LET n == Find(s, old) IN
    IF n = 0 THEN s
    ELSE SubSeq(s, 1, n - 1) \o new
         \o Replace(SubSeq(s, n + Len(old), Len(s)), old, new)

(* f.read() on a file opened with open(path, "r"): text mode reads with    *)
(* universal newlines, "\r\n" and a lone "\r" arrive as "\n".              *)
ReadText(raw) == Replace(Replace(raw, <<CR, NL>>, <<NL>>), <<CR>>, <<NL>>)

(* f.readlines() on such a file: the text as read, cut after every         *)
(* newline; a last line without a newline is a line too.                   *)
ReadLines(raw) ==
    LET s == ReadText(raw)
        ends == {i \in 1..Len(s) : s[i] = NL \/ i = Len(s)}
        nth(k) == CHOOSE e \in ends : Cardinality({x \in ends : x <= e}) = k
        start(k) == IF k = 1 THEN 1 ELSE nth(k - 1) + 1
    IN  [k \in 1..Cardinality(ends) |-> SubSeq(s, start(k), nth(k))]

(* f.writelines(lines): the lines one after the other.                     *)
RECURSIVE WriteLines(_)
WriteLines(ls) == IF ls = <<>> THEN <<>> ELSE Head(ls) \o WriteLines(Tail(ls))

---------------------------------------------------------------------------
(* The .env patch.                                                         *)

(* The chain as it would be without its final else: a line no rule        *)
(* matches is not appended.                                                *)
MissingElseEnvPatchLine(line) ==
    LET stripped == Strip(line) IN
    IF StartsWith(stripped, <<"DB_CONNECTION">>) THEN
        IF Contains(stripped, <<"=", "mysql">>) \/ Contains(stripped, <<"=", "sqlite">>)
        THEN <<"DB_CONNECTION", "=", "pgsql", NL>>
        ELSE line
    ELSE IF StartsWith(stripped, <<"#">>) /\ Contains(stripped, <<"DB_HOST">>) THEN
        <<"DB_HOST", "=", "pgsql", NL>>
    ELSE IF StartsWith(stripped, <<"#">>) /\ Contains(stripped, <<"DB_PORT">>) THEN
        <<"DB_PORT", "=", "5432", NL>>
    ELSE IF StartsWith(stripped, <<"#">>) /\ Contains(stripped, <<"DB_DATABASE">>) THEN
        <<"DB_DATABASE", "=", "laravel", NL>>
    ELSE IF StartsWith(stripped, <<"#">>) /\ Contains(stripped, <<"DB_USERNAME">>) THEN
        <<"DB_USERNAME", "=", "sail", NL>>
    ELSE IF StartsWith(stripped, <<"#">>) /\ Contains(stripped, <<"DB_PASSWORD">>) THEN
        <<"DB_PASSWORD", "=", "password", NL>>
    ELSE IF StartsWith(stripped, <<"DB_HOST", "=">>) THEN
        <<"DB_HOST", "=", "pgsql", NL>>
    ELSE IF StartsWith(stripped, <<"DB_PORT", "=">>) THEN
        <<"DB_PORT", "=", "5432", NL>>
    ELSE IF StartsWith(stripped, <<"DB_DATABASE", "=">>) THEN
        <<"DB_DATABASE", "=", "laravel", NL>>
    ELSE IF StartsWith(stripped, <<"DB_USERNAME", "=">>) THEN
        <<"DB_USERNAME", "=", "sail", NL>>
    ELSE IF StartsWith(stripped, <<"DB_PASSWORD", "=">>) THEN
        <<"DB_PASSWORD", "=", "password", NL>>
    ELSE <<>>

(* The chain as it would be if the comment rules asked for "#KEY" at the   *)
(* start of the line: "# KEY" entries stay commented.                      *)
NoSpaceCommentEnvPatchLine(line) ==
    LET stripped == Strip(line) IN
    IF StartsWith(stripped, <<"DB_CONNECTION">>) THEN
        IF Contains(stripped, <<"=", "mysql">>) \/ Contains(stripped, <<"=", "sqlite">>)
        THEN <<"DB_CONNECTION", "=", "pgsql", NL>>
        ELSE line
    ELSE IF StartsWith(stripped, <<"#", "DB_HOST">>) THEN
        <<"DB_HOST", "=", "pgsql", NL>>
    ELSE IF StartsWith(stripped, <<"#", "DB_PORT">>) THEN
        <<"DB_PORT", "=", "5432", NL>>
    ELSE IF StartsWith(stripped, <<"#", "DB_DATABASE">>) THEN
        <<"DB_DATABASE", "=", "laravel", NL>>
    ELSE IF StartsWith(stripped, <<"#", "DB_USERNAME">>) THEN
        <<"DB_USERNAME", "=", "sail", NL>>
    ELSE IF StartsWith(stripped, <<"#", "DB_PASSWORD">>) THEN
        <<"DB_PASSWORD", "=", "password", NL>>
    ELSE IF StartsWith(stripped, <<"DB_HOST", "=">>) THEN
        <<"DB_HOST", "=", "pgsql", NL>>
    ELSE IF StartsWith(stripped, <<"DB_PORT", "=">>) THEN
        <<"DB_PORT", "=", "5432", NL>>
    ELSE IF StartsWith(stripped, <<"DB_DATABASE", "=">>) THEN
        <<"DB_DATABASE", "=", "laravel", NL>>
    ELSE IF StartsWith(stripped, <<"DB_USERNAME", "=">>) THEN
        <<"DB_USERNAME", "=", "sail", NL>>
    ELSE IF StartsWith(stripped, <<"DB_PASSWORD", "=">>) THEN
        <<"DB_PASSWORD", "=", "password", NL>>
    ELSE line

(* One pass of the loop body over a line of .env: the if/elif chain.       *)
EnvPatchLine(line) ==
    LET stripped == Strip(line) IN
    IF StartsWith(stripped, <<"DB_CONNECTION">>) THEN
        IF Contains(stripped, <<"=", "mysql">>) \/ Contains(stripped, <<"=", "sqlite">>)
        THEN <<"DB_CONNECTION", "=", "pgsql", NL>>
        ELSE line
    ELSE IF StartsWith(stripped, <<"#">>) /\ Contains(stripped, <<"DB_HOST">>) THEN
        <<"DB_HOST", "=", "pgsql", NL>>
    ELSE IF StartsWith(stripped, <<"#">>) /\ Contains(stripped, <<"DB_PORT">>) THEN
        <<"DB_PORT", "=", "5432", NL>>
    ELSE IF StartsWith(stripped, <<"#">>) /\ Contains(stripped, <<"DB_DATABASE">>) THEN
        <<"DB_DATABASE", "=", "laravel", NL>>
    ELSE IF StartsWith(stripped, <<"#">>) /\ Contains(stripped, <<"DB_USERNAME">>) THEN
        <<"DB_USERNAME", "=", "sail", NL>>
    ELSE IF StartsWith(stripped, <<"#">>) /\ Contains(stripped, <<"DB_PASSWORD">>) THEN
        <<"DB_PASSWORD", "=", "password", NL>>
    ELSE IF StartsWith(stripped, <<"DB_HOST", "=">>) THEN
        <<"DB_HOST", "=", "pgsql", NL>>
    ELSE IF StartsWith(stripped, <<"DB_PORT", "=">>) THEN
        <<"DB_PORT", "=", "5432", NL>>
    ELSE IF StartsWith(stripped, <<"DB_DATABASE", "=">>) THEN
        <<"DB_DATABASE", "=", "laravel", NL>>
    ELSE IF StartsWith(stripped, <<"DB_USERNAME", "=">>) THEN
        <<"DB_USERNAME", "=", "sail", NL>>
    ELSE IF StartsWith(stripped, <<"DB_PASSWORD", "=">>) THEN
        <<"DB_PASSWORD", "=", "password", NL>>
    ELSE line

(* readlines, the loop, writelines; content is what the file holds.        *)
EnvPatch(content) ==
    LET lines == ReadLines(content)
        updated_lines == [i \in 1..Len(lines) |-> EnvPatchLine(lines[i])]
    IN  WriteLines(updated_lines)

---------------------------------------------------------------------------
(* The composer.json edit.                                                 *)

PhpArtisan == <<"php", " ", "artisan">>
SailArtisan == <<"./vendor/bin/sail", " ", "artisan">>

ComposerEdit(composer_content) == Replace(composer_content, PhpArtisan, SailArtisan)

---------------------------------------------------------------------------
(* The vite.config.js edit.                                                *)

VueImportCheck == <<"import vue from '@vitejs/plugin-vue'">>
VueImport == VueImportCheck \o <<";">>
LaravelImport == <<"import laravel from 'laravel-vite-plugin';">>
VueCheck == <<"vue({">>
LaravelCall == <<S4, S4, "laravel({">>

(* The lines the edit puts before the laravel({ call.                      *)
VueBlockLines ==
    << <<S4, S4, "vue({">>,
       <<S4, S4, S4, "template: {">>,
       <<S4, S4, S4, S4, "transformAssetUrls: {">>,
       <<S4, S4, S4, S4, S4, "base: null,">>,
       <<S4, S4, S4, S4, S4, "includeAbsolute: false,">>,
       <<S4, S4, S4, S4, "},">>,
       <<S4, S4, S4, "},">>,
       <<S4, S4, "}),">> >>

VueBlock ==
    WriteLines([i \in 1..Len(VueBlockLines) |-> VueBlockLines[i] \o <<NL>>])

(* The edit as it would be without its two "not in" guards.               *)
UnguardedViteEdit(vite_content) ==
    Replace(Replace(vite_content, LaravelImport, LaravelImport \o <<NL>> \o VueImport),
            LaravelCall, VueBlock \o LaravelCall)

(* The edit as it would be with the import put before the anchor line.     *)
SwappedViteEdit(vite_content) ==
    IF ~Contains(vite_content, VueImportCheck) THEN
        LET c1 == Replace(vite_content, LaravelImport,
                          VueImport \o <<NL>> \o LaravelImport)
        IN  IF ~Contains(c1, VueCheck)
            THEN Replace(c1, LaravelCall, VueBlock \o LaravelCall)
            ELSE c1
    ELSE vite_content

ViteEdit(vite_content) ==
    IF ~Contains(vite_content, VueImportCheck) THEN
        LET c1 == Replace(vite_content, LaravelImport,
                          LaravelImport \o <<NL>> \o VueImport)
        IN  IF ~Contains(c1, VueCheck)
            THEN Replace(c1, LaravelCall, VueBlock \o LaravelCall)
            ELSE c1
    ELSE vite_content

---------------------------------------------------------------------------
(* Input files for the edits.                                              *)

SeqsOf(S, lo, hi) == UNION {[1..n -> S] : n \in lo..hi}

(* The line ends a file on disk may carry: "\n", "\r\n" or "\r".           *)
Eols == {<<NL>>, <<CR, NL>>, <<CR>>}

(* Every line followed by the line end.                                    *)
JoinLines(ls, eol) == WriteLines([i \in 1..Len(ls) |-> ls[i] \o eol])

(* A text with and without its final line end.                             *)
BothEndings(c, eol) ==
    IF c = <<>> THEN {c} ELSE {c, SubSeq(c, 1, Len(c) - Len(eol))}

EnvNames ==
    {"DB_CONNECTION", "DB_HOST", "DB_PORT", "DB_DATABASE", "DB_USERNAME",
     "DB_PASSWORD", "x"}

EnvValues ==
    {<<>>, <<"mysql">>, <<"sqlite">>, <<"pgsql">>, <<"x">>, <<"mysql", "x">>,
     <<"x", "mysql">>}

EnvTrailers == {<<>>, <<" ", "#", " ", "DB_HOST">>, <<" ", "#", " ", "DB_USERNAME">>}

(* One line of .env: [indent][#[ ]]NAME[x]=VALUE[ # KEY], the indent a     *)
(* space, a form feed, an ideographic space or (no white space) a letter.  *)
EnvLineTexts ==
    {i \o m \o <<n>> \o t \o <<"=">> \o v \o tr :
        i \in {<<>>, <<" ">>, <<FF>>, <<"U+3000">>, <<"U+00E9">>}, m \in {<<>>, <<"#">>, <<"#", " ">>},
        n \in EnvNames, t \in {<<>>, <<"x">>}, v \in EnvValues, tr \in EnvTrailers}

CoreEnvLines ==
    {<<"DB_CONNECTION", "=", "mysql">>, <<"#", " ", "DB_HOST", "=", "x">>,
     <<"DB_PORT", "=", "x">>, <<"x", "=", "x">>, <<>>}

EnvFiles ==
    UNION {BothEndings(l \o eol, eol) : l \in EnvLineTexts, eol \in Eols}
    \cup UNION {BothEndings(JoinLines(ls, eol), eol) :
                    ls \in SeqsOf(CoreEnvLines, 0, MaxEnvLines), eol \in Eols}

ComposerTokens == {"php", " ", "artisan", "./vendor/bin/sail", "x", NL, CR}

ThreeArtisans ==
    <<"x", NL>> \o PhpArtisan \o <<"x", NL>> \o PhpArtisan \o <<NL>> \o PhpArtisan

ComposerFiles == SeqsOf(ComposerTokens, 0, MaxComposerLen) \cup {ThreeArtisans}

ViteLines ==
    {LaravelImport, VueImport, LaravelCall, <<S4>> \o LaravelCall,
     <<S4, "laravel({">>, <<S4, S4, "vue({">>, LaravelImport \o <<" ", "x">>, <<"x">>}

ViteFiles ==
    UNION {BothEndings(JoinLines(ls, eol), eol) :
              ls \in SeqsOf(ViteLines, 0, MaxViteLines), eol \in Eols}

---------------------------------------------------------------------------
(* The script, top to bottom.                                              *)

(* A project name is what was typed, as tokens: <<"app">>, <<"/", "abs">>, *)
(* <<"sub", "/", "app">>, <<".">>, <<>> for nothing typed.  A path is the  *)
(* sequence of its parts, <<"/">> first when it is absolute; a part is the *)
(* run of tokens between two separators.                                   *)
ScriptDir == << <<"/">>, <<"script_dir">> >>
Elsewhere == << <<"/">>, <<"elsewhere">> >>

(* A symbolic link: the place it stands at and the directory it leads to,  *)
(* both as the directories they are (no link on the way to them).          *)
Link(at, to) == [at |-> at, to |-> to]
NoLinks == {}
LinkedSubdir ==
    {Link(<< <<"/">>, <<"script_dir">>, <<"link">> >>, << <<"/">>, <<"deep">>, <<"dir">> >>)}
LinkedProject ==
    {Link(<< <<"/">>, <<"script_dir">>, <<"app">> >>, << <<"/">>, <<"deep">>, <<"app">> >>)}
LinkedScriptDir ==
    {Link(<< <<"/">>, <<"script_dir">> >>, << <<"/">>, <<"real">>, <<"script">> >>)}
LinkWorlds == {NoLinks, LinkedSubdir, LinkedProject, LinkedScriptDir}

(* input() takes any text.                                                 *)
ProjectNames ==
    {<<"app">>, <<"blog">>, <<"sub", "/", "app">>, <<"/", "abs">>, <<".">>, <<>>,
     <<"..", "/", "app">>, <<"/", "/", "abs">>, <<".", "app">>,
     <<"link", "/", "..", "/", "app">>}

IsDot(part) == part = <<".">>
IsDotDot(part) == part \in {<<"..">>, <<".", ".">>}

(* The parts pathlib keeps of a text: the runs between separators, without *)
(* the empty ones and without "."; ".." stays.                             *)
Parts(name) ==
    LET seps == {i \in 1..Len(name) : name[i] = "/"} \cup {0, Len(name) + 1}
        nth(k) == CHOOSE i \in seps : Cardinality({j \in seps : j <= i}) = k
        runs == [k \in 1..(Cardinality(seps) - 1) |->
                    SubSeq(name, nth(k) + 1, nth(k + 1) - 1)]
        kept(part) == part # <<>> /\ ~IsDot(part)
    IN  SelectSeq(runs, kept)

(* The root of an absolute text: "//" for exactly two leading separators,  *)
(* "/" for any other number of them.                                       *)
Root(name) ==
    IF Len(name) >= 2 /\ name[2] = "/" /\ ~(Len(name) >= 3 /\ name[3] = "/")
    THEN <<"/", "/">> ELSE <<"/">>

(* script_dir / project_name: an absolute name stands for itself, any      *)
(* other is put under dir.                                                 *)
ProjectPath(dir, name) ==
    IF name # <<>> /\ name[1] = "/" THEN <<Root(name)>> \o Parts(name)
    ELSE dir \o Parts(name)

(* The directory the kernel gets to from cur along the parts: ".." is the  *)
(* parent of where it stands (the parent of "/" is "/"), a part at which a *)
(* link stands leads to where the link leads.                              *)
RECURSIVE Walk(_, _)
Walk(cur, parts) ==
    IF parts = <<>> THEN cur
    ELSE LET part == Head(parts)
             at == Append(cur, part)
             next == IF IsDotDot(part)
                     THEN IF Len(cur) <= 1 THEN cur ELSE SubSeq(cur, 1, Len(cur) - 1)
                     ELSE IF \E l \in links : l.at = at
                     THEN (CHOOSE l \in links : l.at = at).to
                     ELSE at
         IN  Walk(next, Tail(parts))

(* The directory an absolute path names ("//" is "/"); what os.getcwd()    *)
(* gives after os.chdir(path).                                             *)
Resolved(path) == Walk(<< <<"/">> >>, Tail(path))

(* A path os.chdir cannot fail on after os.chdir(script_dir): it goes up   *)
(* from there, or from "/", and nowhere down.                              *)
AlwaysThere(name) == \A k \in 1..Len(Parts(name)) : IsDotDot(Parts(name)[k])

(* Where the process can be started: in the script's directory or not.     *)
LaunchDirs == {Resolved(ScriptDir), Elsewhere}

StepSeq ==
    <<"installer", "create", "sail", "compose", "env", "up", "migrate",
      "composer", "inertia", "vue", "tailwind", "css", "vite", "views",
      "middleware", "bootstrap", "appjs", "routes", "dirs", "welcome">>

Starting(step) == [step |-> step, kind |-> "starting"]
Completed(step) == [step |-> step, kind |-> "completed"]
Warning(step) == [step |-> step, kind |-> "warning"]

Outcome(step, result) == [step |-> step, result |-> result, cwd |-> cwd]

At(step) == status = "running" /\ pc <= Len(StepSeq) /\ StepSeq[pc] = step

NoProject == "NoProject"

(* A path of the project tree holds nothing (Absent) or one thing: a file  *)
(* with its content, or for resources/views a directory with its entries.  *)
Absent == <<>>
File(content) == <<content>>
Held(path) == path[1]

(* with open(path, "r") as f: f.read()                                     *)
ContentOf(path) == ReadText(Held(path))

(* Path.exists()                                                           *)
Exists(path) == path # Absent

(* The literal text the script holds in the variable of that name.         *)
Blob(name) == <<name>>

(* How a child process can end: exit code 0, another exit code, or no      *)
(* process at all because the executable could not be started.             *)
ExitCodes == {"zero", "nonzero", "nolaunch"}

(* subprocess.run(..., check=True) returns only for exit code 0.           *)
CheckPasses(rc) == rc = "zero"

(* A step went through: both its notices are out, the next step is next.   *)
StepDone(step, result) ==
    /\ notices' = notices \o <<Starting(step), Completed(step)>>
    /\ outcomes' = Append(outcomes, Outcome(step, result))
    /\ pc' = pc + 1
    /\ status' = status

(* An exception left the script after the step's first print.              *)
StepRaised(step, result) ==
    /\ notices' = notices \o <<Starting(step)>>
    /\ outcomes' = Append(outcomes, Outcome(step, result))
    /\ pc' = pc
    /\ status' = "aborted"

(* An edit step as it would be without its exists() test: open() raises.   *)
RaiseOnMissing(step) == StepRaised(step, "ioerror")

(* The else branch of an edit step: a warning, nothing written.            *)
SkipWithWarning(step) ==
    /\ notices' = notices \o <<Starting(step), Warning(step)>>
    /\ outcomes' = Append(outcomes, Outcome(step, "skipped"))
    /\ pc' = pc + 1
    /\ status' = status

(* print, subprocess.run(check=True), print                                *)
RunProcess(step) ==
    \E rc \in ExitCodes :
        IF CheckPasses(rc) THEN StepDone(step, rc) ELSE StepRaised(step, rc)

(* What `laravel new` may leave in resources/views: per name, nothing, a   *)
(* regular file, a directory (with whatever is in it), a symlink to a      *)
(* file, a symlink to a directory, or a symlink to nothing.                *)
ViewNames == {"app.blade.php", "welcome.blade.php"}
EntryKinds == {"none", "file", "dir", "linkfile", "linkdir", "dangling"}
ViewsStates == {Absent} \cup {File(v) : v \in [ViewNames -> EntryKinds]}

DefaultEnvLines ==
    << <<"x", "=", "x">>, <<"DB_CONNECTION", "=", "sqlite">>,
       <<"#", " ", "DB_HOST", "=", "x">>, <<"#", " ", "DB_PORT", "=", "x">> >>
DefaultEnv == JoinLines(DefaultEnvLines, <<NL>>)
DefaultComposerLines == << <<"x">>, PhpArtisan \o <<"x">> >>
DefaultComposer == JoinLines(DefaultComposerLines, <<NL>>)
DefaultViteLines == <<LaravelImport, <<"x">>, LaravelCall, <<"x">>>>
DefaultVite == JoinLines(DefaultViteLines, <<NL>>)

DefaultSkeleton ==
    [compose |-> Absent, env |-> File(DefaultEnv), composer |-> File(DefaultComposer),
     cssDir |-> TRUE, css |-> File(<<"old">>), vite |-> File(DefaultVite),
     views |-> File([n \in ViewNames |->
                        IF n = "welcome.blade.php" THEN "file" ELSE "none"]),
     blade |-> Absent,
     bootstrapDir |-> TRUE, bootstrap |-> File(<<"old">>),
     jsDir |-> TRUE, appjs |-> File(<<"old">>),
     routesDir |-> TRUE, web |-> File(<<"old">>),
     pagesDir |-> FALSE, componentsDir |-> FALSE, layoutsDir |-> FALSE,
     welcome |-> Absent]

(* A project directory with nothing of a Laravel project in it.            *)
EmptyTree ==
    [compose |-> Absent, env |-> Absent, composer |-> Absent,
     cssDir |-> FALSE, css |-> Absent, vite |-> Absent,
     views |-> Absent, blade |-> Absent,
     bootstrapDir |-> FALSE, bootstrap |-> Absent,
     jsDir |-> FALSE, appjs |-> Absent,
     routesDir |-> FALSE, web |-> Absent,
     pagesDir |-> FALSE, componentsDir |-> FALSE, layoutsDir |-> FALSE,
     welcome |-> Absent]

(* What the project directory may hold after `laravel new` exited with 0:  *)
(* the default tree changed in one place, or no tree.                      *)
Skeletons ==
    {EmptyTree} \cup
    {[DefaultSkeleton EXCEPT !.env = c] :
        c \in {Absent, File(DefaultEnv), File(<<"DB_CONNECTION", "=", "mysql">>),
               File(JoinLines(DefaultEnvLines, <<CR, NL>>))}}
    \cup {[DefaultSkeleton EXCEPT !.composer = c] :
             c \in {Absent, File(PhpArtisan),
                    File(JoinLines(DefaultComposerLines, <<CR, NL>>))}}
    \cup {[DefaultSkeleton EXCEPT !.vite = c] :
             c \in {Absent, File(ViteEdit(DefaultVite)),
                    File(JoinLines(DefaultViteLines, <<CR, NL>>))}}
    \cup {[DefaultSkeleton EXCEPT
               !.views = v,
               !.blade = IF Exists(v) /\ Held(v)["app.blade.php"] \in {"file", "linkfile"}
                         THEN File(<<"old">>) ELSE Absent] :
             v \in ViewsStates}
    \cup {[DefaultSkeleton EXCEPT !.cssDir = FALSE, !.css = Absent],
          [DefaultSkeleton EXCEPT !.css = Absent],
          [DefaultSkeleton EXCEPT !.bootstrapDir = FALSE, !.bootstrap = Absent],
          [DefaultSkeleton EXCEPT !.bootstrap = Absent],
          [DefaultSkeleton EXCEPT !.jsDir = FALSE, !.appjs = Absent],
          [DefaultSkeleton EXCEPT !.appjs = Absent],
          [DefaultSkeleton EXCEPT !.routesDir = FALSE, !.web = Absent],
          [DefaultSkeleton EXCEPT !.web = Absent],
          [DefaultSkeleton EXCEPT !.pagesDir = TRUE, !.welcome = File(<<"old">>)]}

Init ==
    /\ pc = 1
    /\ status = "running"
    /\ links \in LinkWorlds
    /\ launch \in LaunchDirs
    /\ cwd = launch
    /\ project_name \in ProjectNames
    /\ notices = <<>>
    /\ outcomes = <<>>
    /\ fs = NoProject
    /\ orig = NoProject
    /\ target = "none"
    /\ hist = <<>>

(* composer global require laravel/installer                               *)
InstallInstaller ==
    /\ At("installer")
    /\ RunProcess("installer")
    /\ UNCHANGED <<cwd, launch, links, project_name, fs, orig, target, hist>>

(* The step as it would be without os.chdir(script_dir).                   *)
NoChdir(dir) == dir

(* os.chdir(script_dir): the working directory `laravel new` runs in.      *)
ChdirScriptDir(dir) == Resolved(ScriptDir)

(* laravel new <name>, between the two os.chdir calls.  The command runs   *)
(* in script_dir, through the shell.  When it exits with 0 the second      *)
(* print is out, and os.chdir(project_path) follows: the directory is      *)
(* there, with whatever the command left in it, and becomes the working    *)
(* directory, or it is not (the shell read the typed text otherwise than   *)
(* pathlib does: "~/app", "app #") and os.chdir raises.                    *)
CreateProject ==
    /\ At("create")
    /\ \E rc \in ExitCodes,
          there \in IF AlwaysThere(project_name) THEN {TRUE} ELSE BOOLEAN :
        LET dir == ChdirScriptDir(cwd)
            project_path == ProjectPath(ScriptDir, project_name)
        IN  IF ~CheckPasses(rc)
            THEN /\ notices' = notices \o <<Starting("create")>>
                 /\ outcomes' = Append(outcomes,
                                    [step |-> "create", result |-> rc, cwd |-> dir])
                 /\ cwd' = dir
                 /\ status' = "aborted"
                 /\ UNCHANGED <<pc, fs, orig>>
            ELSE IF ~there
            THEN /\ notices' = notices \o <<Starting("create"), Completed("create")>>
                 /\ outcomes' = Append(outcomes,
                                    [step |-> "create", result |-> "ioerror", cwd |-> dir])
                 /\ cwd' = dir
                 /\ status' = "aborted"
                 /\ UNCHANGED <<pc, fs, orig>>
            ELSE /\ notices' = notices \o <<Starting("create"), Completed("create")>>
                 /\ outcomes' = Append(outcomes,
                                    [step |-> "create", result |-> rc, cwd |-> dir])
                 /\ \E skeleton \in Skeletons : fs' = skeleton /\ orig' = skeleton
                 /\ cwd' = Resolved(project_path)
                 /\ pc' = pc + 1
                 /\ status' = status
    /\ UNCHANGED <<launch, links, project_name, target, hist>>

(* composer require laravel/sail --dev                                     *)
InstallSail ==
    /\ At("sail")
    /\ RunProcess("sail")
    /\ UNCHANGED <<cwd, launch, links, project_name, fs, orig, target, hist>>

(* docker-compose.yml, written in the working directory.                   *)
WriteCompose ==
    /\ At("compose")
    /\ fs' = [fs EXCEPT !.compose = File(Blob("docker_compose_content"))]
    /\ StepDone("compose", "ok")
    /\ UNCHANGED <<cwd, launch, links, project_name, orig, target, hist>>

(* The .env edit.                                                          *)
EditEnv ==
    /\ At("env")
    /\ IF Exists(fs.env)
       THEN /\ fs' = [fs EXCEPT !.env = File(EnvPatch(Held(fs.env)))]
            /\ StepDone("env", "ok")
       ELSE fs' = fs /\ SkipWithWarning("env")
    /\ UNCHANGED <<cwd, launch, links, project_name, orig, target, hist>>

(* ./vendor/bin/sail up -d                                                 *)
SailUp ==
    /\ At("up")
    /\ RunProcess("up")
    /\ UNCHANGED <<cwd, launch, links, project_name, fs, orig, target, hist>>

(* ./vendor/bin/sail artisan migrate                                       *)
Migrate ==
    /\ At("migrate")
    /\ RunProcess("migrate")
    /\ UNCHANGED <<cwd, launch, links, project_name, fs, orig, target, hist>>

(* The composer.json edit.                                                 *)
EditComposer ==
    /\ At("composer")
    /\ IF Exists(fs.composer)
       THEN /\ fs' = [fs EXCEPT !.composer = File(ComposerEdit(ContentOf(fs.composer)))]
            /\ StepDone("composer", "ok")
       ELSE fs' = fs /\ SkipWithWarning("composer")
    /\ UNCHANGED <<cwd, launch, links, project_name, orig, target, hist>>

(* ./vendor/bin/sail composer require inertiajs/inertia-laravel            *)
RequireInertia ==
    /\ At("inertia")
    /\ RunProcess("inertia")
    /\ UNCHANGED <<cwd, launch, links, project_name, fs, orig, target, hist>>

(* ./vendor/bin/sail npm install vue @vitejs/plugin-vue @inertiajs/vue3    *)
InstallVue ==
    /\ At("vue")
    /\ RunProcess("vue")
    /\ UNCHANGED <<cwd, launch, links, project_name, fs, orig, target, hist>>

(* ./vendor/bin/sail npm install -D tailwindcss @tailwindcss/vite          *)
InstallTailwind ==
    /\ At("tailwind")
    /\ RunProcess("tailwind")
    /\ UNCHANGED <<cwd, launch, links, project_name, fs, orig, target, hist>>

(* resources/css/app.css: written in place, or after mkdir(parents=True).  *)
WriteAppCss ==
    /\ At("css")
    /\ fs' = [fs EXCEPT !.cssDir = TRUE, !.css = File(Blob("app_css_content"))]
    /\ StepDone("css", "ok")
    /\ UNCHANGED <<cwd, launch, links, project_name, orig, target, hist>>

(* The vite.config.js edit.                                                *)
EditVite ==
    /\ At("vite")
    /\ IF Exists(fs.vite)
       THEN /\ fs' = [fs EXCEPT !.vite = File(ViteEdit(ContentOf(fs.vite)))]
            /\ StepDone("vite", "ok")
       ELSE fs' = fs /\ SkipWithWarning("vite")
    /\ UNCHANGED <<cwd, launch, links, project_name, orig, target, hist>>

(* The loop over views_dir.iterdir(): is_file() entries (regular files and *)
(* symlinks to them) are unlinked, is_dir() entries go to shutil.rmtree,   *)
(* which removes a directory and raises on a symlink to one; an entry      *)
(* that is neither stays.                                                  *)
Unlinked(kind) == kind \in {"file", "linkfile"}
RmtreeRemoves(kind) == kind = "dir"
RmtreeRaises(kind) == kind = "linkdir"
Cleared(kind) == IF Unlinked(kind) \/ RmtreeRemoves(kind) THEN "none" ELSE kind

(* open("resources/views/app.blade.php", "w") on what the loop left under  *)
(* that name.  Nothing there: a new regular file.  A dangling symlink:     *)
(* open() follows it and creates the file it names, which makes it a link  *)
(* to a file, or raises when that file cannot be created (its directory    *)
(* is missing, the link points at itself).                                 *)
Opened(kind) == IF kind = "dangling" THEN {"linkfile", "raises"} ELSE {"file"}

(* resources/views emptied (or created) and app.blade.php written.         *)
ResetViews ==
    /\ At("views")
    /\ IF ~Exists(fs.views)
       THEN /\ fs' = [fs EXCEPT !.views = File([n \in ViewNames |->
                                  IF n = "app.blade.php" THEN "file" ELSE "none"]),
                                !.blade = File(Blob("app_blade_content"))]
            /\ StepDone("views", "ok")
       ELSE LET entries == Held(fs.views) IN
            IF \E n \in ViewNames : RmtreeRaises(entries[n])
            THEN \* iterdir() yields in any order: any of the other entries
                 \* may have been removed before the loop met the symlink
                 /\ \E gone \in SUBSET {n \in ViewNames : ~RmtreeRaises(entries[n])} :
                        fs' = [fs EXCEPT
                                 !.views = File([n \in ViewNames |->
                                     IF n \in gone THEN Cleared(entries[n]) ELSE entries[n]]),
                                 !.blade = IF "app.blade.php" \in gone
                                              /\ Cleared(entries["app.blade.php"]) = "none"
                                           THEN Absent ELSE fs.blade]
                 /\ StepRaised("views", "ioerror")
            ELSE \E opened \in Opened(Cleared(entries["app.blade.php"])) :
                 IF opened = "raises"
                 THEN /\ fs' = [fs EXCEPT
                                  !.views = File([n \in ViewNames |-> Cleared(entries[n])])]
                      /\ StepRaised("views", "ioerror")
                 ELSE /\ fs' = [fs EXCEPT
                                  !.views = File([n \in ViewNames |->
                                      IF n = "app.blade.php" THEN opened
                                      ELSE Cleared(entries[n])]),
                                  !.blade = File(Blob("app_blade_content"))]
                      /\ StepDone("views", "ok")
    /\ UNCHANGED <<cwd, launch, links, project_name, orig, target, hist>>

(* ./vendor/bin/sail artisan inertia:middleware                            *)
InertiaMiddleware ==
    /\ At("middleware")
    /\ RunProcess("middleware")
    /\ UNCHANGED <<cwd, launch, links, project_name, fs, orig, target, hist>>

(* bootstrap/app.php: unlinked when there, then open(..., "w"), which      *)
(* raises FileNotFoundError when bootstrap/ is not there.                  *)
WriteBootstrap ==
    /\ At("bootstrap")
    /\ IF fs.bootstrapDir
       THEN /\ fs' = [fs EXCEPT !.bootstrap = File(Blob("bootstrap_app_content"))]
            /\ StepDone("bootstrap", "ok")
       ELSE fs' = fs /\ StepRaised("bootstrap", "ioerror")
    /\ UNCHANGED <<cwd, launch, links, project_name, orig, target, hist>>

(* resources/js/app.js, the same way.                                      *)
WriteAppJs ==
    /\ At("appjs")
    /\ IF fs.jsDir
       THEN /\ fs' = [fs EXCEPT !.appjs = File(Blob("app_js_content"))]
            /\ StepDone("appjs", "ok")
       ELSE fs' = fs /\ StepRaised("appjs", "ioerror")
    /\ UNCHANGED <<cwd, launch, links, project_name, orig, target, hist>>

(* routes/web.php, the same way.                                           *)
WriteRoutes ==
    /\ At("routes")
    /\ IF fs.routesDir
       THEN /\ fs' = [fs EXCEPT !.web = File(Blob("web_routes_content"))]
            /\ StepDone("routes", "ok")
       ELSE fs' = fs /\ StepRaised("routes", "ioerror")
    /\ UNCHANGED <<cwd, launch, links, project_name, orig, target, hist>>

(* resources/js/{Pages,Components,Layouts}: mkdir(parents=True).           *)
CreateDirs ==
    /\ At("dirs")
    /\ fs' = [fs EXCEPT !.jsDir = TRUE, !.pagesDir = TRUE,
                        !.componentsDir = TRUE, !.layoutsDir = TRUE]
    /\ StepDone("dirs", "ok")
    /\ UNCHANGED <<cwd, launch, links, project_name, orig, target, hist>>

(* resources/js/Pages/Welcome.vue                                          *)
WriteWelcome ==
    /\ At("welcome")
    /\ IF fs.pagesDir
       THEN /\ fs' = [fs EXCEPT !.welcome = File(Blob("welcome_vue_content"))]
            /\ StepDone("welcome", "ok")
       ELSE fs' = fs /\ StepRaised("welcome", "ioerror")
    /\ UNCHANGED <<cwd, launch, links, project_name, orig, target, hist>>

(* The last print.                                                         *)
Finish ==
    /\ status = "running"
    /\ pc = Len(StepSeq) + 1
    /\ notices' = Append(notices, [step |-> "setup", kind |-> "completed"])
    /\ status' = "done"
    /\ UNCHANGED <<pc, cwd, launch, links, project_name, outcomes, fs, orig, target, hist>>

Next ==
    \/ InstallInstaller \/ CreateProject \/ InstallSail \/ WriteCompose
    \/ EditEnv \/ SailUp \/ Migrate \/ EditComposer \/ RequireInertia
    \/ InstallVue \/ InstallTailwind \/ WriteAppCss \/ EditVite \/ ResetViews
    \/ InertiaMiddleware \/ WriteBootstrap \/ WriteAppJs \/ WriteRoutes
    \/ CreateDirs \/ WriteWelcome \/ Finish

Spec == Init /\ [][Next]_vars

---------------------------------------------------------------------------
(* Applying one edit repeatedly to one input: hist[1] is what the file     *)
(* holds at first, hist[k + 1] what it holds after the k-th read, edit and *)
(* write.                                                                  *)

Last(s) == s[Len(s)]

ApplyEnvPatch ==
    /\ target = "env"
    /\ Len(hist) <= MaxApply
    /\ hist' = Append(hist, EnvPatch(Last(hist)))
    /\ UNCHANGED <<pc, status, cwd, launch, links, project_name, notices, outcomes, fs,
                   orig, target>>

ApplyComposerEdit ==
    /\ target = "composer"
    /\ Len(hist) <= MaxApply
    /\ hist' = Append(hist, ComposerEdit(ReadText(Last(hist))))
    /\ UNCHANGED <<pc, status, cwd, launch, links, project_name, notices, outcomes, fs,
                   orig, target>>

ApplyViteEdit ==
    /\ target = "vite"
    /\ Len(hist) <= MaxApply
    /\ hist' = Append(hist, ViteEdit(ReadText(Last(hist))))
    /\ UNCHANGED <<pc, status, cwd, launch, links, project_name, notices, outcomes, fs,
                   orig, target>>

InitEdit ==
    /\ pc = 1
    /\ status = "harness"
    /\ cwd = Elsewhere
    /\ links = NoLinks
    /\ launch = Elsewhere
    /\ project_name = <<"app">>
    /\ notices = <<>>
    /\ outcomes = <<>>
    /\ fs = NoProject
    /\ orig = NoProject
    /\ \/ target = "env" /\ \E c \in EnvFiles : hist = <<c>>
       \/ target = "composer" /\ \E c \in ComposerFiles : hist = <<c>>
       \/ target = "vite" /\ \E c \in ViteFiles : hist = <<c>>

NextEdit == ApplyEnvPatch \/ ApplyComposerEdit \/ ApplyViteEdit

SpecEdit == InitEdit /\ [][NextEdit]_vars

---------------------------------------------------------------------------
(* Vocabulary of the statements about the edits.                           *)

DbKeys == <<"DB_HOST", "DB_PORT", "DB_DATABASE", "DB_USERNAME", "DB_PASSWORD">>
DbTargets == <<"pgsql", "5432", "laravel", "sail", "password">>

(* The line KEY=<target> the patch writes for the k-th key.                *)
TargetLine(k) == <<DbKeys[k], "=", DbTargets[k], NL>>

(* The value of an entry: what follows its first "=".                      *)
ValueOf(stripped) ==
    LET n == Find(stripped, <<"=">>) IN
    IF n = 0 THEN <<>> ELSE SubSeq(stripped, n + 1, Len(stripped))

(* A commented entry for the k-th key: #KEY=... or # KEY=...               *)
IsCommentedEntry(stripped, k) ==
    \/ StartsWith(stripped, <<"#", DbKeys[k], "=">>)
    \/ StartsWith(stripped, <<"#", " ", DbKeys[k], "=">>)

(* A line, as the script reads it, without its newline.                   *)
LineText(l) == IF l # <<>> /\ l[Len(l)] = NL THEN SubSeq(l, 1, Len(l) - 1) ELSE l

LineTexts(content) ==
    LET ls == ReadLines(content) IN [i \in 1..Len(ls) |-> LineText(ls[i])]

LineCount(content) == Len(ReadLines(content))

(* How many times p occurs in s (no search string here overlaps itself).   *)
Occurrences(s, p) ==
    Cardinality({i \in 1..Len(s) :
                     i + Len(p) - 1 <= Len(s) /\ SubSeq(s, i, i + Len(p) - 1) = p})

EnvApplied == target = "env" /\ Len(hist) >= 2

(* C2 (as claimed): every line whose trimmed content starts with          *)
(* DB_CONNECTION becomes exactly DB_CONNECTION=pgsql when its value is     *)
(* mysql or sqlite, and is left untouched for any other value, longer      *)
(* values that merely contain mysql or sqlite included.                    *)
C2_ConnectionGuardByValue ==
    EnvApplied =>
        LET ins == ReadLines(hist[1])
            outs == ReadLines(hist[2])
        IN  /\ Len(outs) = Len(ins)
            /\ \A i \in 1..Len(ins) :
                   StartsWith(Strip(ins[i]), <<"DB_CONNECTION">>) =>
                       IF ValueOf(Strip(ins[i])) \in {<<"mysql">>, <<"sqlite">>}
                       THEN outs[i] = <<"DB_CONNECTION", "=", "pgsql", NL>>
                       ELSE outs[i] = ins[i]

(* What the three statements about the keys have in common: every line     *)
(* that starts with KEY= becomes KEY=<target>, and afterwards no comment   *)
(* line names a key and every KEY= line carries the target.                *)
KeysForced(ins, outs) ==
    /\ Len(outs) = Len(ins)
    /\ \A i \in 1..Len(ins) : \A k \in 1..Len(DbKeys) :
           StartsWith(Strip(ins[i]), <<DbKeys[k], "=">>) => outs[i] = TargetLine(k)
    /\ \A i \in 1..Len(outs) : \A k \in 1..Len(DbKeys) :
           /\ ~(StartsWith(Strip(outs[i]), <<"#">>) /\ Contains(outs[i], <<DbKeys[k]>>))
           /\ StartsWith(Strip(outs[i]), <<DbKeys[k], "=">>) => outs[i] = TargetLine(k)

(* C3 (as claimed): every commented entry #KEY=... or # KEY=... of one of  *)
(* the five keys becomes exactly KEY=<target> for that key.                *)
C3_EveryCommentedEntryItsOwnKey ==
    EnvApplied =>
        LET ins == ReadLines(hist[1])
            outs == ReadLines(hist[2])
        IN  /\ KeysForced(ins, outs)
            /\ \A i \in 1..Len(ins) : \A k \in 1..Len(DbKeys) :
                   IsCommentedEntry(Strip(ins[i]), k) => outs[i] = TargetLine(k)

(* C3 (amended): a line whose trimmed content starts with # and names at   *)
(* least one of the five keys becomes KEY=<target> for the first key, in   *)
(* the order host, port, database, username, password, that it names; a   *)
(* line that starts with KEY= becomes KEY=<target>; afterwards no comment  *)
(* line names a key and every KEY= line carries the target.                *)
C3_CommentedEntryFirstKeyWins ==
    EnvApplied =>
        LET ins == ReadLines(hist[1])
            outs == ReadLines(hist[2])
        IN  /\ KeysForced(ins, outs)
            /\ \A i \in 1..Len(ins) : \A k \in 1..Len(DbKeys) :
                   ( /\ StartsWith(Strip(ins[i]), <<"#">>)
                     /\ Contains(Strip(ins[i]), <<DbKeys[k]>>)
                     /\ \A j \in 1..(k - 1) : ~Contains(Strip(ins[i]), <<DbKeys[j]>>) )
                   => outs[i] = TargetLine(k)

(* C3 witness: a "# DB_PORT=..." entry that also names DB_USERNAME was     *)
(* rewritten to DB_PORT=5432.                                              *)
C3_Witness ==
    /\ EnvApplied
    /\ StartsWith(hist[1], <<"#", " ", "DB_PORT", "=">>)
    /\ Contains(hist[1], <<"DB_USERNAME">>)
    /\ hist[2] = <<"DB_PORT", "=", "5432", NL>>

(* C4 (as claimed): no edit step changes the number of lines of its file.  *)
C4_LineCountInvariantAllEdits ==
    \A k \in 1..(Len(hist) - 1) : LineCount(hist[k + 1]) = LineCount(hist[k])

(* The lines the vite.config.js edit adds to a content.                    *)
ViteAddedLines(c) ==
    IF Contains(c, VueImportCheck) THEN 0
    ELSE Occurrences(c, LaravelImport)
         + (IF Contains(c, VueCheck) THEN 0
            ELSE Len(VueBlockLines) * Occurrences(c, LaravelCall))

(* C4 (amended): with lines taken as the script reads them (a line ends    *)
(* at "\n", "\r\n" or "\r", and is written back ending in "\n"), the .env  *)
(* patch and the composer.json edit keep the number of lines, and the .env *)
(* patch leaves every line in place, unchanged or rewritten to a KEY=value *)
(* line; the vite.config.js edit adds one line per import anchor and eight *)
(* per registration anchor it inserts at.                                  *)
C4_LineCountEnvComposerOnly ==
    \A k \in 1..(Len(hist) - 1) :
        /\ target \in {"env", "composer"} => LineCount(hist[k + 1]) = LineCount(hist[k])
        /\ target = "env" =>
               \A i \in 1..LineCount(hist[k]) :
                   \/ ReadLines(hist[k + 1])[i] = ReadLines(hist[k])[i]
                   \/ ReadLines(hist[k + 1])[i] = <<"DB_CONNECTION", "=", "pgsql", NL>>
                   \/ \E j \in 1..Len(DbKeys) : ReadLines(hist[k + 1])[i] = TargetLine(j)
        /\ target = "vite" =>
               LineCount(hist[k + 1]) = LineCount(hist[k]) + ViteAddedLines(hist[k])

(* C4 witness: a two-line .env with a rewritten second line.               *)
C4_Witness ==
    /\ EnvApplied
    /\ LineCount(hist[1]) = 2
    /\ ReadLines(hist[2])[1] = ReadLines(hist[1])[1]
    /\ ReadLines(hist[2])[2] # ReadLines(hist[1])[2]

(* C5: applying the vite.config.js edit or the composer.json replacement   *)
(* a second time changes nothing.                                          *)
C5_SubstringEditsIdempotent ==
    target \in {"vite", "composer"} =>
        \A k \in 2..(Len(hist) - 1) : hist[k + 1] = hist[k]

(* C5 witness: a vite.config.js with only the registration anchor, edited  *)
(* twice, the first edit having inserted the block.                        *)
C5_Witness ==
    /\ target = "vite"
    /\ Len(hist) >= 3
    /\ ~Contains(hist[1], LaravelImport)
    /\ Contains(hist[1], LaravelCall)
    /\ hist[2] # hist[1]

(* The anchors stand as entire lines of the content.                       *)
AnchorsAreLines(c) ==
    \A i \in 1..LineCount(c) :
        LET t == LineTexts(c)[i] IN
        /\ Contains(t, LaravelImport) => t = LaravelImport
        /\ Contains(t, LaravelCall) => t = LaravelCall

(* The lines of a content with the import line put after every anchor      *)
(* import line and the block put before every anchor registration line.    *)
WithInsertions(texts) ==
    WriteLines([i \in 1..Len(texts) |->
        IF texts[i] = LaravelImport THEN <<LaravelImport, VueImport>>
        ELSE IF texts[i] = LaravelCall THEN VueBlockLines \o <<LaravelCall>>
        ELSE <<texts[i]>>])

(* C8 (as claimed): for a vite.config.js without the vue import, the       *)
(* import line follows the anchor import line, the vue block precedes the  *)
(* anchor registration line, and every other line is as it was.            *)
C8_InsertsWheneverImportLacks ==
    (target = "vite" /\ Len(hist) >= 2
        /\ ~Contains(hist[1], VueImportCheck) /\ AnchorsAreLines(hist[1]))
    => LineTexts(hist[2]) = WithInsertions(LineTexts(hist[1]))

(* C8 (amended): the same, for a vite.config.js that has neither the vue   *)
(* import nor the text vue({ and whose anchors stand as entire lines; the  *)
(* text of every other line is as it was, every line end is "\n".          *)
C8_InsertsWhenImportAndBlockLack ==
    (target = "vite" /\ Len(hist) >= 2
        /\ ~Contains(hist[1], VueImportCheck) /\ ~Contains(hist[1], VueCheck)
        /\ AnchorsAreLines(hist[1]))
    => LineTexts(hist[2]) = WithInsertions(LineTexts(hist[1]))

(* C8 witness: import anchor, another line, registration anchor; patched.  *)
C8_Witness ==
    /\ target = "vite"
    /\ Len(hist) >= 2
    /\ LineTexts(hist[1]) = <<LaravelImport, <<"x">>, LaravelCall>>
    /\ LineTexts(hist[2]) =
           <<LaravelImport, VueImport, <<"x">>>> \o VueBlockLines \o <<LaravelCall>>

---------------------------------------------------------------------------
(* Vocabulary of the statements about the run.                             *)

StepIndex(step) == CHOOSE i \in 1..Len(StepSeq) : StepSeq[i] = step

(* The steps in order, the last print after them.                          *)
NoticeIndex(n) == IF n.step = "setup" THEN Len(StepSeq) + 1 ELSE StepIndex(n.step)

Executed(step) == \E i \in 1..Len(outcomes) : outcomes[i].step = step

OutcomeOf(step) == outcomes[CHOOSE i \in 1..Len(outcomes) : outcomes[i].step = step]

Noticed(n) == \E j \in 1..Len(notices) : notices[j] = n

Failed(result) == result \in {"nonzero", "nolaunch", "ioerror"}

ProcessSteps ==
    {"installer", "create", "sail", "up", "migrate", "inertia", "vue", "tailwind",
     "middleware"}

(* C1 (as claimed): when a step fails, no later step runs and the failed step gets no   *)
(* "completed" notice; a step starts only after every step before it went  *)
(* through without error.                                                  *)
C1_PipelineAbort ==
    /\ \A i \in 1..Len(outcomes) :
           Failed(outcomes[i].result) =>
               /\ i = Len(outcomes)
               /\ status = "aborted"
               /\ ~Noticed(Completed(outcomes[i].step))
               /\ \A j \in 1..Len(notices) :
                      NoticeIndex(notices[j]) <= StepIndex(outcomes[i].step)
    /\ \A j \in 1..Len(notices) :
           notices[j].kind = "starting" =>
               \A k \in 1..(NoticeIndex(notices[j]) - 1) :
                   /\ \E i \in 1..Len(outcomes) :
                          outcomes[i].step = StepSeq[k] /\ ~Failed(outcomes[i].result)
                   /\ \E b \in 1..(j - 1) :
                          notices[b] \in {Completed(StepSeq[k]), Warning(StepSeq[k])}

(* C6 (as claimed): whatever resources/views held, once the views step has *)
(* completed the directory holds exactly one entry, the new app.blade.php. *)
C6_ViewsHoldOnlyTheShell ==
    (Executed("views") /\ ~Failed(OutcomeOf("views").result)) =>
        /\ Held(fs.views) =
               [n \in ViewNames |-> IF n = "app.blade.php" THEN "file" ELSE "none"]
        /\ fs.blade = File(Blob("app_blade_content"))

EditSteps == {"env", "composer", "vite"}

(* C7: an edit step whose file is missing warns, writes nothing, prints no *)
(* "updated successfully" and lets the script go on; a process step that   *)
(* fails stops it.                                                         *)
C7_MissingEditTargetNonFatal ==
    /\ \A e \in EditSteps :
           (Executed(e) /\ ~Exists(orig[e])) =>
               /\ OutcomeOf(e).result = "skipped"
               /\ Noticed(Warning(e))
               /\ ~Noticed(Completed(e))
               /\ ~Exists(fs[e])
               /\ pc > StepIndex(e)
               /\ status = "aborted" => StepSeq[pc] # e
    /\ \A i \in 1..Len(outcomes) :
           (outcomes[i].step \in ProcessSteps /\ outcomes[i].result # "zero") =>
               status = "aborted" /\ StepSeq[pc] = outcomes[i].step

(* C7 witness: .env was missing and the container start ran all the same.  *)
C7_Witness ==
    /\ Executed("env")
    /\ ~Exists(orig.env)
    /\ Executed("up")
    /\ OutcomeOf("up").result = "zero"

(* The directory each typed name stands for under the script's directory,  *)
(* in each world of links: a plain name is a directory of that name there, *)
(* an absolute name is itself, "." and nothing typed are the script's      *)
(* directory, ".." is the parent of the directory before it, and a link on *)
(* the way leads to its target.                                            *)
RootRow(w, name, root) == [links |-> w, name |-> name, root |-> root]
ProjectRoots ==
    {RootRow(NoLinks, <<"app">>,
             << <<"/">>, <<"script_dir">>, <<"app">> >>),
     RootRow(NoLinks, <<"sub", "/", "app">>,
             << <<"/">>, <<"script_dir">>, <<"sub">>, <<"app">> >>),
     RootRow(NoLinks, <<"/", "abs">>,
             << <<"/">>, <<"abs">> >>),
     RootRow(NoLinks, <<".">>,
             << <<"/">>, <<"script_dir">> >>),
     RootRow(NoLinks, <<>>,
             << <<"/">>, <<"script_dir">> >>),
     RootRow(NoLinks, <<"..", "/", "app">>,
             << <<"/">>, <<"app">> >>),
     RootRow(NoLinks, <<"/", "/", "abs">>,
             << <<"/">>, <<"abs">> >>),
     RootRow(NoLinks, <<".", "app">>,
             << <<"/">>, <<"script_dir">>, <<".", "app">> >>),
     RootRow(NoLinks, <<"link", "/", "..", "/", "app">>,
             << <<"/">>, <<"script_dir">>, <<"app">> >>),
     RootRow(LinkedSubdir, <<"app">>,
             << <<"/">>, <<"script_dir">>, <<"app">> >>),
     RootRow(LinkedSubdir, <<"sub", "/", "app">>,
             << <<"/">>, <<"script_dir">>, <<"sub">>, <<"app">> >>),
     RootRow(LinkedSubdir, <<"/", "abs">>,
             << <<"/">>, <<"abs">> >>),
     RootRow(LinkedSubdir, <<".">>,
             << <<"/">>, <<"script_dir">> >>),
     RootRow(LinkedSubdir, <<>>,
             << <<"/">>, <<"script_dir">> >>),
     RootRow(LinkedSubdir, <<"..", "/", "app">>,
             << <<"/">>, <<"app">> >>),
     RootRow(LinkedSubdir, <<"/", "/", "abs">>,
             << <<"/">>, <<"abs">> >>),
     RootRow(LinkedSubdir, <<".", "app">>,
             << <<"/">>, <<"script_dir">>, <<".", "app">> >>),
     RootRow(LinkedSubdir, <<"link", "/", "..", "/", "app">>,
             << <<"/">>, <<"deep">>, <<"app">> >>),
     RootRow(LinkedProject, <<"app">>,
             << <<"/">>, <<"deep">>, <<"app">> >>),
     RootRow(LinkedProject, <<"sub", "/", "app">>,
             << <<"/">>, <<"script_dir">>, <<"sub">>, <<"app">> >>),
     RootRow(LinkedProject, <<"/", "abs">>,
             << <<"/">>, <<"abs">> >>),
     RootRow(LinkedProject, <<".">>,
             << <<"/">>, <<"script_dir">> >>),
     RootRow(LinkedProject, <<>>,
             << <<"/">>, <<"script_dir">> >>),
     RootRow(LinkedProject, <<"..", "/", "app">>,
             << <<"/">>, <<"app">> >>),
     RootRow(LinkedProject, <<"/", "/", "abs">>,
             << <<"/">>, <<"abs">> >>),
     RootRow(LinkedProject, <<".", "app">>,
             << <<"/">>, <<"script_dir">>, <<".", "app">> >>),
     RootRow(LinkedProject, <<"link", "/", "..", "/", "app">>,
             << <<"/">>, <<"deep">>, <<"app">> >>),
     RootRow(LinkedScriptDir, <<"app">>,
             << <<"/">>, <<"real">>, <<"script">>, <<"app">> >>),
     RootRow(LinkedScriptDir, <<"sub", "/", "app">>,
             << <<"/">>, <<"real">>, <<"script">>, <<"sub">>, <<"app">> >>),
     RootRow(LinkedScriptDir, <<"/", "abs">>,
             << <<"/">>, <<"abs">> >>),
     RootRow(LinkedScriptDir, <<".">>,
             << <<"/">>, <<"real">>, <<"script">> >>),
     RootRow(LinkedScriptDir, <<>>,
             << <<"/">>, <<"real">>, <<"script">> >>),
     RootRow(LinkedScriptDir, <<"..", "/", "app">>,
             << <<"/">>, <<"real">>, <<"app">> >>),
     RootRow(LinkedScriptDir, <<"/", "/", "abs">>,
             << <<"/">>, <<"abs">> >>),
     RootRow(LinkedScriptDir, <<".", "app">>,
             << <<"/">>, <<"real">>, <<"script">>, <<".", "app">> >>),
     RootRow(LinkedScriptDir, <<"link", "/", "..", "/", "app">>,
             << <<"/">>, <<"real">>, <<"script">>, <<"app">> >>),
     RootRow(NoLinks, <<"blog">>,
             << <<"/">>, <<"script_dir">>, <<"blog">> >>),
     RootRow(LinkedSubdir, <<"blog">>,
             << <<"/">>, <<"script_dir">>, <<"blog">> >>),
     RootRow(LinkedProject, <<"blog">>,
             << <<"/">>, <<"script_dir">>, <<"blog">> >>),
     RootRow(LinkedScriptDir, <<"blog">>,
             << <<"/">>, <<"real">>, <<"script">>, <<"blog">> >>)}

ProjectRoot ==
    (CHOOSE r \in ProjectRoots : r.links = links /\ r.name = project_name).root

(* The script's directory as the kernel has it.                            *)
ScriptRoot ==
    IF links = LinkedScriptDir THEN << <<"/">>, <<"real">>, <<"script">> >>
    ELSE << <<"/">>, <<"script_dir">> >>

(* C9 (as claimed): every step up to and including project creation runs   *)
(* in the launch directory, every later one in the project root, the       *)
(* directory of the project's name under the script's.                     *)
C9_LaunchDirThenProjectRoot ==
    \A i \in 1..Len(outcomes) :
        IF StepIndex(outcomes[i].step) <= StepIndex("create")
        THEN outcomes[i].cwd = launch
        ELSE outcomes[i].cwd = ProjectRoot

(* C9 (amended): the installer step runs in the directory the process was  *)
(* started from, project creation in the script's own directory, every     *)
(* later step in the directory the project's name stands for under the     *)
(* script's directory (the name itself when it is absolute, links          *)
(* followed); the working directory changes in the project creation step   *)
(* only, and is the script's directory when that step fails.               *)
C9_ScriptDirThenProjectRoot ==
    /\ \A i \in 1..Len(outcomes) :
           outcomes[i].cwd =
               IF outcomes[i].step = "installer" THEN launch
               ELSE IF outcomes[i].step = "create" THEN ScriptRoot
               ELSE ProjectRoot
    /\ cwd = IF ~Executed("create") THEN launch
             ELSE IF Failed(OutcomeOf("create").result) THEN ScriptRoot
             ELSE ProjectRoot

(* C9 witness: started from another directory, the project's name going    *)
(* through a link and up again, past the first step after project          *)
(* creation.                                                               *)
C9_Witness ==
    /\ launch = Elsewhere
    /\ links = LinkedSubdir
    /\ project_name = <<"link", "/", "..", "/", "app">>
    /\ Executed("sail")
    /\ OutcomeOf("sail").cwd = << <<"/">>, <<"deep">>, <<"app">> >>

WriteSteps == {"compose", "css", "views", "bootstrap", "appjs", "routes", "welcome"}

(* Whether the parent directory of a write step's file was generated.      *)
ParentGenerated(w) ==
    CASE w = "compose" -> TRUE
      [] w = "css" -> orig.cssDir
      [] w = "views" -> Exists(orig.views)
      [] w = "bootstrap" -> orig.bootstrapDir
      [] w = "appjs" -> orig.jsDir
      [] w = "routes" -> orig.routesDir
      [] w = "welcome" -> orig.pagesDir

(* The file a write step writes and the text it writes.                    *)
WrittenFile(w) ==
    CASE w = "compose" -> fs.compose
      [] w = "css" -> fs.css
      [] w = "views" -> fs.blade
      [] w = "bootstrap" -> fs.bootstrap
      [] w = "appjs" -> fs.appjs
      [] w = "routes" -> fs.web
      [] w = "welcome" -> fs.welcome

WrittenBlob(w) ==
    CASE w = "compose" -> Blob("docker_compose_content")
      [] w = "css" -> Blob("app_css_content")
      [] w = "views" -> Blob("app_blade_content")
      [] w = "bootstrap" -> Blob("bootstrap_app_content")
      [] w = "appjs" -> Blob("app_js_content")
      [] w = "routes" -> Blob("web_routes_content")
      [] w = "welcome" -> Blob("welcome_vue_content")

(* C10 (as claimed): a write step whose parent directory is missing        *)
(* creates it and succeeds, and a write step that succeeds leaves exactly  *)
(* its literal text in the file.                                           *)
C10_EveryWriteCreatesItsParent ==
    \A w \in WriteSteps :
        Executed(w) =>
            /\ ~ParentGenerated(w) => ~Failed(OutcomeOf(w).result)
            /\ ~Failed(OutcomeOf(w).result) => WrittenFile(w) = File(WrittenBlob(w))

===========================================================================
